---- MODULE Spec2Model ----
(***************************************************************************)
(* Model of the chunking and two-stage summarisation pipeline of           *)
(* src/main.py: chunk_text, extract_keypoints_from_chunk,                  *)
(* synthesize_keypoints, send_whatsapp_message,                            *)
(* process_document_link_and_send and whatsapp_webhook.                    *)
(*                                                                         *)
(* A Python str is a sequence of one-character strings.                    *)
(***************************************************************************)
EXTENDS Integers, Sequences, FiniteSets, TLC

VARIABLES
    \* chunk_text called on its own: arguments, `chunks`, the returned list
    text, chunk_size, overlap, chunks, final_chunks, called,
    \* the two completion helpers called on their own: the segments, the
    \* list all_chunk_points, the value synthesize_keypoints returned
    segments, all_chunk_points, synthesis, synthesized,
    \* the delivery branch of process_document_link_and_send on its own:
    \* `final`, the texts handed to send_whatsapp_message, in order
    final, handed, delivered,
    \* the threads whatsapp_webhook starts: per thread, the position in
    \* process_document_link_and_send, its arguments and its locals
    pc, url, to_whatsapp, run_text, run_chunks, chunk_points, run_final,
    \* what each thread handed to send_whatsapp_message, the completion calls
    \* it made, and the messages Twilio accepted, in order
    sent, calls, outbox

chunkVars == <<text, chunk_size, overlap, chunks, final_chunks, called>>
synthVars == <<segments, all_chunk_points, synthesis, synthesized>>

splitVars == <<final, handed, delivered>>

runVars == <<pc, url, to_whatsapp, run_text, run_chunks, chunk_points,
             run_final, sent, calls, outbox>>

vars == <<chunkVars, synthVars, splitVars, runVars>>

Runs == {1, 2}

ChunkIdle ==
    /\ text = <<>> /\ chunk_size = 1 /\ overlap = 0
    /\ chunks = <<>> /\ final_chunks = <<>> /\ called = FALSE

SynthIdle ==
    /\ segments = <<>> /\ all_chunk_points = <<>>
    /\ synthesis = <<>> /\ synthesized = FALSE

SplitIdle == final = <<>> /\ handed = <<>> /\ delivered = FALSE

\* the local `text` of a thread before line 234 has assigned it
Unset == <<"<unassigned>">>

RunIdle ==
    /\ pc = [r \in Runs |-> "idle"]
    /\ url = [r \in Runs |-> <<>>]
    /\ to_whatsapp = [r \in Runs |-> "nobody"]
    /\ run_text = [r \in Runs |-> Unset]
    /\ run_chunks = [r \in Runs |-> <<>>]
    /\ chunk_points = [r \in Runs |-> <<>>]
    /\ run_final = [r \in Runs |-> <<>>]
    /\ sent = [r \in Runs |-> <<>>]
    /\ calls = [r \in Runs |-> <<>>]
    /\ outbox = <<>>

(***************************************************************************)
(* Characters and the str methods the program uses.                        *)
(***************************************************************************)
NL == "\n"
CR == "\r"
SP == " "

\* the characters str.strip() removes, among those the model uses
Whitespace == {NL, CR, SP}

Min(a, b) == IF a <= b THEN a ELSE b

\* s[i:j] with 0 <= i, Python's clamping of j to len(s)
Slice(s, i, j) == SubSeq(s, i + 1, Min(j, Len(s)))

\* s[-n:] for n > 0
LastChars(s, n) == IF n >= Len(s) THEN s ELSE SubSeq(s, Len(s) - n + 1, Len(s))

\* F applied to the value of x: x is evaluated once, however often F uses it
With(x, F(_)) == CHOOSE v \in {F(y) : y \in {x}} : TRUE

\* text.replace("\r", "\n")
ReplaceCR(str) ==
    With(str, LAMBDA s : [i \in 1..Len(s) |-> IF s[i] = CR THEN NL ELSE s[i]])

\* s.strip()
Strip(str) ==
    With(str, LAMBDA s :
        IF \A i \in 1..Len(s) : s[i] \in Whitespace THEN <<>>
        ELSE LET lo == CHOOSE i \in 1..Len(s) :
                          s[i] \notin Whitespace /\ \A j \in 1..(i - 1) : s[j] \in Whitespace
                 hi == CHOOSE i \in 1..Len(s) :
                          s[i] \notin Whitespace /\ \A j \in (i + 1)..Len(s) : s[j] \in Whitespace
             IN  SubSeq(s, lo, hi))

\* the first index of s at or after `from` where Hit holds, 0 when there is none
FirstIndex(s, from, Hit(_, _)) ==
    IF \E i \in from..Len(s) : Hit(s, i)
    THEN CHOOSE i \in from..Len(s) : Hit(s, i) /\ \A j \in from..(i - 1) : ~Hit(s, j)
    ELSE 0

IsParagraphBreak(s, i) == i < Len(s) /\ s[i] = NL /\ s[i + 1] = NL

\* s.split("\n\n"): leftmost, non-overlapping separators
RECURSIVE SplitParagraphs(_)
SplitParagraphs(str) ==
    With(str, LAMBDA s :
        With(FirstIndex(s, 1, IsParagraphBreak), LAMBDA i :
            IF i = 0 THEN <<s>>
            ELSE <<SubSeq(s, 1, i - 1)>> \o SplitParagraphs(SubSeq(s, i + 2, Len(s)))))

IsLineBreak(s, i) == s[i] \in {NL, CR}

\* s.splitlines(): "\n", "\r" and "\r\n" end a line, no empty last line
RECURSIVE SplitLines(_)
SplitLines(str) ==
    With(str, LAMBDA s :
        With(FirstIndex(s, 1, IsLineBreak), LAMBDA i :
            IF s = <<>> THEN <<>>
            ELSE IF i = 0 THEN <<s>>
            ELSE LET w == IF s[i] = CR /\ i < Len(s) /\ s[i + 1] = NL THEN 2 ELSE 1
                 IN  <<SubSeq(s, 1, i - 1)>> \o SplitLines(SubSeq(s, i + w, Len(s)))))

\* sep.join(parts)
RECURSIVE JoinFrom(_, _, _)
JoinFrom(parts, k, sep) ==
    IF k > Len(parts) THEN <<>>
    ELSE IF k = Len(parts) THEN parts[k]
    ELSE parts[k] \o sep \o JoinFrom(parts, k + 1, sep)

Join(parts, sep) == JoinFrom(parts, 1, sep)

\* p in s
IsSubstr(pat, str) ==
    With(<<pat, str>>, LAMBDA a :
        \E k \in 0..(Len(a[2]) - Len(a[1])) :
            \A i \in 1..Len(a[1]) : a[2][k + i] = a[1][i])

\* xs[:n]
Take(xs, n) == SubSeq(xs, 1, Min(n, Len(xs)))

(***************************************************************************)
(* chunk_text                                                              *)
(***************************************************************************)

\* ChunkStep without chunks.append(current) when the paragraph overflows
ChunkStep_NoAppend(st, p, cs, ov) ==
    IF Strip(p) = <<>> THEN st
    ELSE IF Len(st.current) + Len(p) + 2 <= cs
    THEN [chunks  |-> st.chunks,
          current |-> IF st.current # <<>> THEN st.current \o <<NL, NL>> \o p ELSE p]
    ELSE [chunks  |-> st.chunks,
          current |-> IF ov > 0 THEN LastChars(st.current, ov) \o <<NL, NL>> \o p
                      ELSE p]

\* one pass of the paragraph loop of chunk_text on paragraph p;
\* st holds `chunks` and `current`
ChunkStep(st, p, cs, ov) ==
    IF Strip(p) = <<>> THEN st
    ELSE IF Len(st.current) + Len(p) + 2 <= cs
    THEN [chunks  |-> st.chunks,
          current |-> IF st.current # <<>> THEN st.current \o <<NL, NL>> \o p ELSE p]
    ELSE [chunks  |-> Append(st.chunks, st.current),
          current |-> IF ov > 0 THEN LastChars(st.current, ov) \o <<NL, NL>> \o p
                      ELSE p]

\* the paragraph loop of chunk_text, from paragraph k on
RECURSIVE ChunkLoop(_, _, _, _, _)
ChunkLoop(paragraphs, k, st, cs, ov) ==
    IF k > Len(paragraphs) THEN st
    ELSE With(ChunkStep(st, paragraphs[k], cs, ov),
              LAMBDA nx : ChunkLoop(paragraphs, k + 1, nx, cs, ov))

\* the buffers chunk_text collects in `chunks`, up to line 154
ChunkBuffers(t, cs, ov) ==
    With(SplitParagraphs(ReplaceCR(t)), LAMBDA paragraphs :
        With(ChunkLoop(paragraphs, 1, [chunks |-> <<>>, current |-> <<>>], cs, ov),
             LAMBDA st : IF Strip(st.current) # <<>>
                         THEN Append(st.chunks, st.current)
                         ELSE st.chunks))

\* Windows with slices c[i:i + chunk_size + overlap]
Windows_Wide(c, cs, ov) ==
    LET step == cs - ov
        n    == (Len(c) + step - 1) \div step
    IN  [j \in 1..n |-> Slice(c, (j - 1) * step, (j - 1) * step + cs + ov)]

\* the windows c[i:i + chunk_size] for i in range(0, len(c), chunk_size - overlap)
Windows(c, cs, ov) ==
    LET step == cs - ov
        n    == (Len(c) + step - 1) \div step
    IN  [j \in 1..n |-> Slice(c, (j - 1) * step, (j - 1) * step + cs)]

\* the second loop of chunk_text: buffers longer than chunk_size are re-split
RECURSIVE Resplit(_, _, _, _)
Resplit(cks, k, cs, ov) ==
    IF k > Len(cks) THEN <<>>
    ELSE (IF Len(cks[k]) <= cs THEN <<cks[k]>> ELSE Windows(cks[k], cs, ov))
         \o Resplit(cks, k + 1, cs, ov)

chunk_text(t, cs, ov) ==
    With(ChunkBuffers(t, cs, ov), LAMBDA cks : Resplit(cks, 1, cs, ov))

(***************************************************************************)
(* The completion helpers.  A call to openai.ChatCompletion.create either  *)
(* raises (ok = FALSE) or returns a message whose content is `content`.    *)
(***************************************************************************)
FallbackLines == 10
FallbackPoints == 10

Failed == [ok |-> FALSE, content |-> <<>>]
Answered(c) == [ok |-> TRUE, content |-> c]

\* extract_keypoints_from_chunk falling back to every line of the chunk
extract_keypoints_AllLines(chunk, outcome) ==
    IF outcome.ok THEN Strip(outcome.content)
    ELSE Join(SplitLines(chunk), <<NL>>)

extract_keypoints_from_chunk(chunk, outcome) ==
    IF outcome.ok THEN Strip(outcome.content)
    ELSE Join(Take(SplitLines(chunk), FallbackLines), <<NL>>)

synthesize_keypoints(points, outcome) ==
    IF outcome.ok THEN Strip(outcome.content)
    ELSE Join(Take(points, FallbackPoints), <<NL>>)

(***************************************************************************)
(* The delivery branch of process_document_link_and_send (lines 255-280).  *)
(* A text handed to send_whatsapp_message is a record: `kind` names the    *)
(* fixed wording the program puts in front ("raw" when there is none) and  *)
(* `text` is the variable part.                                            *)
(***************************************************************************)
SoftLimit == 2000
PartLimit == 1800

Message(k, t) == [kind |-> k, text |-> t]

Contains(s, pat) == IsSubstr(pat, s)

ChapterWord == <<"C", "h", "a", "p", "t", "e", "r">>
CHAPTERWord == <<"C", "H", "A", "P", "T", "E", "R">>

\* one pass of the loop that recombines the parts, on part p;
\* st holds out_parts and `cur`
RecombineStep(st, p) ==
    IF Len(st.cur) + Len(p) + 2 <= PartLimit
    THEN [out |-> st.out,
          cur |-> IF st.cur # <<>> THEN st.cur \o <<NL, NL>> \o p ELSE p]
    ELSE [out |-> Append(st.out, st.cur), cur |-> p]

RECURSIVE RecombineLoop(_, _, _)
RecombineLoop(parts, k, st) ==
    IF k > Len(parts) THEN st
    ELSE With(RecombineStep(st, parts[k]),
              LAMBDA nx : RecombineLoop(parts, k + 1, nx))

\* out_parts
OutParts(fin) ==
    With(SelectSeq(SplitParagraphs(fin), LAMBDA p : Strip(p) # <<>>), LAMBDA parts :
        With(RecombineLoop(parts, 1, [out |-> <<>>, cur |-> <<>>]),
             LAMBDA st : IF st.cur # <<>> THEN Append(st.out, st.cur) ELSE st.out))

SplitsOnParagraphs(fin) ==
    \/ Contains(fin, ChapterWord)
    \/ Contains(fin, CHAPTERWord)
    \/ Contains(fin, <<NL, NL>>)

\* the texts the delivery branch hands to send_whatsapp_message, in order
DeliveryTexts(fin) ==
    IF Len(fin) < SoftLimit THEN <<Message("complete", fin)>>
    ELSE IF SplitsOnParagraphs(fin)
         THEN With(OutParts(fin), LAMBDA out_parts :
                  [i \in 1..Len(out_parts) |-> Message("raw", out_parts[i])])
         ELSE <<Message("in_parts", <<>>), Message("raw", fin)>>

(***************************************************************************)
(* Bounds                                                                  *)
(***************************************************************************)
MaxLen == 6
MaxChunk == 4

Letters == <<"a", "b", "c", "d", "e", "f", "g", "h", "i", "j">>

\* input texts: at each position a newline, a carriage return, a blank or
\* a letter that occurs nowhere else in the text
Texts ==
    UNION {{t \in [1..n -> {NL, CR, SP, "x"}] : TRUE} : n \in 0..MaxLen}

Mark(t) == [i \in 1..Len(t) |-> IF t[i] = "x" THEN Letters[i] ELSE t[i]]

InitChunk ==
    /\ SynthIdle /\ SplitIdle /\ RunIdle
    /\ text \in {Mark(t) : t \in Texts}
    /\ chunk_size \in 1..MaxChunk
    /\ overlap \in 0..(chunk_size - 1)
    /\ chunks = <<>>
    /\ final_chunks = <<>>
    /\ called = FALSE

CallChunkText ==
    /\ ~called
    /\ called' = TRUE
    /\ chunks' = ChunkBuffers(text, chunk_size, overlap)
    /\ final_chunks' = chunk_text(text, chunk_size, overlap)
    /\ UNCHANGED <<text, chunk_size, overlap>>
    /\ UNCHANGED <<synthVars, splitVars, runVars>>

NextChunk == CallChunkText

SpecChunk == InitChunk /\ [][NextChunk]_vars

(***************************************************************************)
(* Claims about chunk_text                                                 *)
(***************************************************************************)

\* C1: every segment chunk_text returns is at most chunk_size characters
\* long, for every text and every chunk_size > overlap >= 0
C1_SegmentBound ==
    called => \A i \in 1..Len(final_chunks) : Len(final_chunks[i]) <= chunk_size

\* a buffer seeded with overlap text plus an overflowing paragraph was
\* re-split into windows
C1_Witness ==
    /\ called
    /\ overlap > 0
    /\ \E b \in 2..Len(chunks) : Len(chunks[b]) > chunk_size
    /\ Len(final_chunks) > Len(chunks)

\* C2: no segment chunk_text returns is empty after trimming
C2_NoEmptySegment ==
    called => \A i \in 1..Len(final_chunks) : Strip(final_chunks[i]) # <<>>

IsLetter(c) == c \notin Whitespace

\* the non-blank paragraphs of the normalised input, in source order
NonBlankParagraphs(t) ==
    SelectSeq(SplitParagraphs(ReplaceCR(t)), LAMBDA p : Strip(p) # <<>>)

RECURSIVE Concat(_, _)
Concat(ss, k) == IF k > Len(ss) THEN <<>> ELSE ss[k] \o Concat(ss, k + 1)

\* s with every character that already occurred earlier removed
FirstOccurrences(s) ==
    SelectSeq([i \in 1..Len(s) |-> IF \E j \in 1..(i - 1) : s[j] = s[i] THEN SP ELSE s[i]],
              IsLetter)

\* segments i..j read as consecutive windows advancing by step characters
RECURSIVE Stitch(_, _, _, _)
Stitch(segs, i, j, step) ==
    IF i = j THEN segs[i]
    ELSE Slice(segs[i], 0, step) \o Stitch(segs, i + 1, j, step)

\* C3: the segments, read in order, cover every non-blank paragraph in
\* source order: every paragraph lies wholly inside one segment or across
\* consecutive windows, every letter of the input occurs in the segments in
\* the order of the input, and what the segments add is repetition only
C3_Coverage ==
    called =>
        /\ \A k \in 1..Len(NonBlankParagraphs(text)) :
              \E i \in 1..Len(final_chunks) : \E j \in i..Len(final_chunks) :
                 IsSubstr(NonBlankParagraphs(text)[k],
                          Stitch(final_chunks, i, j, chunk_size - overlap))
        /\ FirstOccurrences(Concat(final_chunks, 1)) = SelectSeq(text, IsLetter)

\* two paragraphs, the second seeded behind overlap text and re-split
C3_Witness ==
    /\ called
    /\ overlap > 0
    /\ Len(NonBlankParagraphs(text)) >= 2
    /\ \E b \in 2..Len(chunks) : Len(chunks[b]) > chunk_size

(***************************************************************************)
(* The completion helpers on the segments of a small document              *)
(***************************************************************************)
MaxDocLen == 3

\* what the completion service may put in message.content
Contents == {<<>>, <<SP>>, <<"k">>, <<SP, "k", NL>>}

Outcomes == {Failed} \cup {Answered(c) : c \in Contents}

InitSynth ==
    /\ SplitIdle /\ RunIdle
    /\ text \in {Mark(t) : t \in {u \in Texts : Len(u) <= MaxDocLen}}
    /\ chunk_size \in 1..MaxChunk
    /\ overlap \in 0..(chunk_size - 1)
    /\ chunks = ChunkBuffers(text, chunk_size, overlap)
    /\ final_chunks = chunk_text(text, chunk_size, overlap)
    /\ called = TRUE
    /\ segments = final_chunks
    /\ all_chunk_points = <<>>
    /\ synthesis = <<>>
    /\ synthesized = FALSE

\* one pass of the per-chunk loop: cp = extract_keypoints_from_chunk(c, i)
SummarizeChunk ==
    /\ Len(all_chunk_points) < Len(segments)
    /\ \E o \in Outcomes :
         all_chunk_points' =
            Append(all_chunk_points,
                   extract_keypoints_from_chunk(segments[Len(all_chunk_points) + 1], o))
    /\ UNCHANGED <<segments, synthesis, synthesized>>
    /\ UNCHANGED <<chunkVars, splitVars, runVars>>

\* final = synthesize_keypoints(chunk_points)
Synthesize ==
    /\ Len(all_chunk_points) = Len(segments)
    /\ ~synthesized
    /\ \E o \in Outcomes :
         synthesis' = synthesize_keypoints(all_chunk_points, o)
    /\ synthesized' = TRUE
    /\ UNCHANGED <<segments, all_chunk_points>>
    /\ UNCHANGED <<chunkVars, splitVars, runVars>>

NextSynth == SummarizeChunk \/ Synthesize

SpecSynth == InitSynth /\ [][NextSynth]_vars

\* C5: for a non-empty sequence of segment summaries synthesize_keypoints
\* returns a non-empty string, whether the completion call succeeds or fails
C5_NonEmptySynthesis ==
    (synthesized /\ Len(all_chunk_points) >= 1) => synthesis # <<>>

(***************************************************************************)
(* The delivery branch on synthesis results built from paragraphs          *)
(***************************************************************************)
MaxParas == 3

Rep(c, n) == [i \in 1..n |-> c]

\* paragraphs of a synthesis result: short, around the part limit, beyond
\* it, blank, and one holding the word Chapter
ParagraphInputs ==
    {Rep("a", n) : n \in {1, 900, PartLimit - 2, PartLimit - 1, SoftLimit + 500}}
        \cup {<<SP>>, ChapterWord \o Rep("a", SoftLimit)}

FinalInputs ==
    {Join(ps, <<NL, NL>>) : ps \in UNION {[1..n -> ParagraphInputs] : n \in 1..MaxParas}}
        \cup {Rep("a", SoftLimit), Rep("a", SoftLimit - 1)}

InitSplit ==
    /\ ChunkIdle /\ SynthIdle /\ RunIdle
    /\ final \in FinalInputs
    /\ handed = <<>>
    /\ delivered = FALSE

\* lines 255-280 with a delivery collaborator that never fails
Deliver ==
    /\ ~delivered
    /\ handed' = DeliveryTexts(final)
    /\ delivered' = TRUE
    /\ UNCHANGED final
    /\ UNCHANGED <<chunkVars, synthVars, runVars>>

NextSplit == Deliver

SpecSplit == InitSplit /\ [][NextSplit]_vars

\* C6: when a synthesis result of length >= 2000 is split on double
\* newlines, every delivery part is between 1 and 1800 characters long
C6_PartBounds ==
    (delivered /\ Len(final) >= SoftLimit /\ SplitsOnParagraphs(final)) =>
        \A i \in 1..Len(handed) :
            Len(handed[i].text) >= 1 /\ Len(handed[i].text) <= PartLimit

(***************************************************************************)
(* send_whatsapp_message, whatsapp_webhook and the thread running          *)
(* process_document_link_and_send                                          *)
(***************************************************************************)
MaxMessageLen == 3000
PipelineChunkSize == 3000
PipelineOverlap == 500
MinTextLen == 50

Digit == <<"0", "1", "2", "3", "4", "5", "6", "7", "8", "9">>

\* str(n) for n >= 0
RECURSIVE DecimalString(_)
DecimalString(n) ==
    IF n < 10 THEN <<Digit[n + 1]>>
    ELSE DecimalString(n \div 10) \o <<Digit[(n % 10) + 1]>>

\* the bodies send_whatsapp_message passes to Twilio for one text: the
\* slices text[i:i + max_len]; every fixed wording is shorter than max_len
\* and the text behind "complete" is shorter than 2000 characters
SendSlices(m) ==
    IF m.kind = "raw"
    THEN [j \in 1..((Len(m.text) + MaxMessageLen - 1) \div MaxMessageLen) |->
             Message("raw", Slice(m.text, (j - 1) * MaxMessageLen, j * MaxMessageLen))]
    ELSE <<m>>

\* the From of the latest request, as if kept in one module-level variable
Recipient_Latest(r) ==
    to_whatsapp[CHOOSE q \in Runs :
                    pc[q] # "idle" /\ \A o \in Runs : pc[o] # "idle" => o <= q]

\* the recipient send_whatsapp_message is called with in thread r
Recipient(r) == to_whatsapp[r]

\* send_whatsapp_message(to_whatsapp, m) in thread r: Twilio accepts the
\* first k slices; when a slice is refused the call raises and the thread
\* enters the except clause, otherwise it goes on at `next`
Send(r, m, next) ==
    \E slices \in {SendSlices(m)} : \E k \in 0..Len(slices) :
        /\ outbox' = outbox \o [j \in 1..k |->
                        [to |-> Recipient(r), body |-> slices[j], run |-> r]]
        /\ sent' = [sent EXCEPT ![r] = Append(@, m)]
        /\ pc' = [pc EXCEPT ![r] = IF k = Len(slices) THEN next ELSE "except"]

StartsWith(s, pre) == Len(s) >= Len(pre) /\ SubSeq(s, 1, Len(pre)) = pre

HttpPrefix == <<"h", "t", "t", "p", ":", "/", "/">>
HttpsPrefix == <<"h", "t", "t", "p", "s", ":", "/", "/">>

\* whatsapp_webhook with Body = body and From = from: a link starts a
\* thread; any other body is answered with a request for a link and starts
\* none (the TwiML answer is the return value and is not kept)
whatsapp_webhook(body, from) ==
    LET incoming == Strip(body)
    IN  IF incoming = <<>>
        THEN UNCHANGED <<pc, url, to_whatsapp>>
        ELSE IF StartsWith(incoming, HttpPrefix) \/ StartsWith(incoming, HttpsPrefix)
        THEN \E r \in Runs :
                /\ pc[r] = "idle"
                /\ \A q \in Runs : pc[q] = "idle" => r <= q
                /\ pc' = [pc EXCEPT ![r] = "got_link"]
                /\ url' = [url EXCEPT ![r] = incoming]
                /\ to_whatsapp' = [to_whatsapp EXCEPT ![r] = from]
        ELSE UNCHANGED <<pc, url, to_whatsapp>>

\* line 233
SendGotLink(r) ==
    /\ pc[r] = "got_link"
    /\ Send(r, Message("got_link", <<>>), "extract")
    /\ UNCHANGED <<url, to_whatsapp, run_text, run_chunks, chunk_points,
                   run_final, calls>>

\* ExtractText with the length test on the untrimmed text
ExtractText_NoStrip(r, docs) ==
    /\ pc[r] = "extract"
    /\ \/ \E d \in docs :
            /\ run_text' = [run_text EXCEPT ![r] = d]
            /\ pc' = [pc EXCEPT ![r] =
                        IF d = <<>> \/ Len(d) < MinTextLen
                        THEN "no_text" ELSE "chunk"]
       \/ /\ pc' = [pc EXCEPT ![r] = "except"]
          /\ UNCHANGED run_text
    /\ UNCHANGED <<url, to_whatsapp, run_chunks, chunk_points, run_final,
                   sent, calls, outbox>>

\* lines 234-235: extract_text_from_url returns one of docs or raises
ExtractText(r, docs) ==
    /\ pc[r] = "extract"
    /\ \/ \E d \in docs :
            /\ run_text' = [run_text EXCEPT ![r] = d]
            /\ pc' = [pc EXCEPT ![r] =
                        IF d = <<>> \/ Len(Strip(d)) < MinTextLen
                        THEN "no_text" ELSE "chunk"]
       \/ /\ pc' = [pc EXCEPT ![r] = "except"]
          /\ UNCHANGED run_text
    /\ UNCHANGED <<url, to_whatsapp, run_chunks, chunk_points, run_final,
                   sent, calls, outbox>>

\* lines 236-237
SendNoText(r) ==
    /\ pc[r] = "no_text"
    /\ Send(r, Message("no_text", <<>>), "rejected")
    /\ UNCHANGED <<url, to_whatsapp, run_text, run_chunks, chunk_points,
                   run_final, calls>>

\* lines 240-241
ChunkAndAnnounce(r) ==
    /\ pc[r] = "chunk"
    /\ \E cks \in {chunk_text(run_text[r], PipelineChunkSize, PipelineOverlap)} :
         /\ run_chunks' = [run_chunks EXCEPT ![r] = cks]
         /\ Send(r, Message("split", DecimalString(Len(cks))), "summarize")
    /\ UNCHANGED <<url, to_whatsapp, run_text, chunk_points, run_final, calls>>

Call(k, i, o) == [kind |-> k, index |-> i, returned |-> TRUE, outcome |-> o]
HungCall(k, i) == [kind |-> k, index |-> i, returned |-> FALSE, outcome |-> Failed]

\* the index of enumerate(chunks) without start=1
LoopIndex_FromZero(r) == Len(chunk_points[r])

\* the index i enumerate(chunks, start=1) gives the chunk the loop is at
LoopIndex(r) == Len(chunk_points[r]) + 1

\* the chunk c the loop is at
LoopChunk(r) == run_chunks[r][Len(chunk_points[r]) + 1]

\* the loop has chunks left
LoopRuns(r) == Len(chunk_points[r]) < Len(run_chunks[r])

\* lines 245-248, one pass: the completion call returns or raises
ExtractKeypoints(r, outs) ==
    /\ pc[r] = "summarize"
    /\ LoopRuns(r)
    /\ \E o \in outs :
         /\ calls' = [calls EXCEPT ![r] = Append(@, Call("chunk", LoopIndex(r), o))]
         /\ chunk_points' = [chunk_points EXCEPT ![r] =
               Append(@, extract_keypoints_from_chunk(LoopChunk(r), o))]
    /\ UNCHANGED <<pc, url, to_whatsapp, run_text, run_chunks, run_final,
                   sent, outbox>>

\* line 250
SendSynthesizing(r) ==
    /\ pc[r] = "summarize"
    /\ ~LoopRuns(r)
    /\ Send(r, Message("synthesizing", <<>>), "synthesize")
    /\ UNCHANGED <<url, to_whatsapp, run_text, run_chunks, chunk_points,
                   run_final, calls>>

\* line 252
SynthesizeFinal(r, outs) ==
    /\ pc[r] = "synthesize"
    /\ \E o \in outs : \E fin \in {synthesize_keypoints(chunk_points[r], o)} :
         /\ calls' = [calls EXCEPT ![r] = Append(@, Call("synthesis", 0, o))]
         /\ run_final' = [run_final EXCEPT ![r] = fin]
         /\ pc' = [pc EXCEPT ![r] =
                     IF DeliveryTexts(fin) = <<>> THEN "done" ELSE "deliver"]
    /\ UNCHANGED <<url, to_whatsapp, run_text, run_chunks, chunk_points,
                   sent, outbox>>

\* a completion call that never returns (lines 179 and 205)
CompletionHangs(r) ==
    /\ \/ /\ pc[r] = "summarize"
          /\ LoopRuns(r)
          /\ calls' = [calls EXCEPT ![r] = Append(@, HungCall("chunk", LoopIndex(r)))]
       \/ /\ pc[r] = "synthesize"
          /\ calls' = [calls EXCEPT ![r] = Append(@, HungCall("synthesis", 0))]
    /\ pc' = [pc EXCEPT ![r] = "hung"]
    /\ UNCHANGED <<url, to_whatsapp, run_text, run_chunks, chunk_points,
                   run_final, sent, outbox>>

IsDelivery(m) == m.kind \in {"complete", "raw", "in_parts"}

\* lines 255-280: the next text of the delivery branch is sent
DeliverPart(r) ==
    /\ pc[r] = "deliver"
    /\ \E texts \in {DeliveryTexts(run_final[r])} :
         \E j \in {Len(SelectSeq(sent[r], IsDelivery)) + 1} :
            Send(r, texts[j], IF j = Len(texts) THEN "done" ELSE "deliver")
    /\ UNCHANGED <<url, to_whatsapp, run_text, run_chunks, chunk_points,
                   run_final, calls>>

\* ReportError sending the notice again when sending it failed
ReportError_Retry(r) ==
    /\ pc[r] = "except"
    /\ \E ok \in BOOLEAN :
         /\ outbox' = IF ok
                      THEN Append(outbox, [to |-> Recipient(r),
                                           body |-> Message("error", <<>>), run |-> r])
                      ELSE outbox
         /\ pc' = [pc EXCEPT ![r] = IF ok THEN "errored" ELSE "except"]
    /\ sent' = [sent EXCEPT ![r] = Append(@, Message("error", <<>>))]
    /\ UNCHANGED <<url, to_whatsapp, run_text, run_chunks, chunk_points,
                   run_final, calls>>

\* lines 281-286: the error notice is sent once, a failure to send it is
\* swallowed
ReportError(r) ==
    /\ pc[r] = "except"
    /\ \E ok \in BOOLEAN :
         outbox' = IF ok
                   THEN Append(outbox, [to |-> Recipient(r),
                                        body |-> Message("error", <<>>), run |-> r])
                   ELSE outbox
    /\ sent' = [sent EXCEPT ![r] = Append(@, Message("error", <<>>))]
    /\ pc' = [pc EXCEPT ![r] = "errored"]
    /\ UNCHANGED <<url, to_whatsapp, run_text, run_chunks, chunk_points,
                   run_final, calls>>

\* one step of the thread r
ThreadStep(r, docs, chunkOuts, synthOuts) ==
    \/ SendGotLink(r)
    \/ ExtractText(r, docs)
    \/ SendNoText(r)
    \/ ChunkAndAnnounce(r)
    \/ ExtractKeypoints(r, chunkOuts)
    \/ SendSynthesizing(r)
    \/ SynthesizeFinal(r, synthOuts)
    \/ CompletionHangs(r)
    \/ DeliverPart(r)
    \/ ReportError(r)

(***************************************************************************)
(* One document request                                                    *)
(***************************************************************************)
Lines(n, w) == Join([i \in 1..n |-> Rep("a", w)], <<NL>>)

\* extracted texts: empty, 49 characters behind blanks, exactly 50
\* characters, twelve lines, two paragraphs that do not share a buffer, and
\* one paragraph that does not fit an empty buffer
Docs ==
    { <<>>,
      Rep(SP, 10) \o Rep("a", MinTextLen - 1),
      Rep("a", MinTextLen),
      Lines(12, 5),
      Rep("a", 1600) \o <<NL, NL>> \o Rep("b", 1600),
      Rep("a", PipelineChunkSize - 1) }

ChunkOutcomes == {Failed, Answered(<<"k">>), Answered(<<SP>>)}

SynthOutcomes ==
    { Failed,
      Answered(<<"k">>),
      Answered(Rep("k", MaxMessageLen + 1)),
      Answered(Rep("k", PipelineChunkSize) \o <<NL, NL>> \o Rep("m", 300)) }

\* the state whatsapp_webhook leaves behind when it has started the thread
\* of one request
InitRun ==
    /\ ChunkIdle /\ SynthIdle /\ SplitIdle
    /\ pc = [r \in Runs |-> IF r = 1 THEN "got_link" ELSE "idle"]
    /\ url = [r \in Runs |-> IF r = 1 THEN HttpsPrefix \o <<"y">> ELSE <<>>]
    /\ to_whatsapp = [r \in Runs |-> IF r = 1 THEN "whatsapp:+1" ELSE "nobody"]
    /\ run_text = [r \in Runs |-> Unset]
    /\ run_chunks = [r \in Runs |-> <<>>]
    /\ chunk_points = [r \in Runs |-> <<>>]
    /\ run_final = [r \in Runs |-> <<>>]
    /\ sent = [r \in Runs |-> <<>>]
    /\ calls = [r \in Runs |-> <<>>]
    /\ outbox = <<>>

\* the thread of that request
NextRun ==
    /\ ThreadStep(1, Docs, ChunkOutcomes, SynthOutcomes)
    /\ UNCHANGED <<chunkVars, synthVars, splitVars>>

SpecRun == InitRun /\ [][NextRun]_vars

\* a thread that can take a step takes one
FairSpecRun == SpecRun /\ WF_vars(NextRun)

(***************************************************************************)
(* Claims about one run                                                    *)
(***************************************************************************)
ChunkCalls(r) == SelectSeq(calls[r], LAMBDA c : c.kind = "chunk")
SynthesisCalls(r) == SelectSeq(calls[r], LAMBDA c : c.kind = "synthesis")

\* chunk.splitlines()[:10] joined by newlines
FirstTenLines(c) == Join(Take(SplitLines(c), 10), <<NL>>)

\* the summary the claims expect from a completion call on segment c
ExpectedSummary(c, call) ==
    IF call.outcome.ok THEN Strip(call.outcome.content) ELSE FirstTenLines(c)

\* C4: whatever per-segment calls fail, the completion service is called
\* once per segment in index order 1..N; when synthesize_keypoints is
\* invoked the summary list has N entries, the i-th made from segment i (the
\* answer, or the first 10 lines of the segment); synthesize_keypoints is
\* invoked at most once, and only after the N-th summary exists
C4_OneSummaryPerSegment ==
    \A r \in Runs :
        LET cc == ChunkCalls(r)
            n  == Len(run_chunks[r])
        IN  /\ Len(cc) <= n
            /\ \A i \in 1..Len(cc) : cc[i].index = i
            /\ Len(SynthesisCalls(r)) <= 1
            /\ \A i \in 1..Len(calls[r]) :
                 calls[r][i].kind = "synthesis" => i = n + 1
            /\ (pc[r] \in {"synthesize", "deliver", "done"} \/ SynthesisCalls(r) # <<>>) =>
                 /\ Len(cc) = n
                 /\ Len(chunk_points[r]) = n
                 /\ \A i \in 1..n :
                      /\ cc[i].returned
                      /\ chunk_points[r][i] = ExpectedSummary(run_chunks[r][i], cc[i])
            /\ pc[r] \in {"deliver", "done"} => Len(SynthesisCalls(r)) = 1

\* synthesis was invoked after a run of three segments whose calls partly
\* failed and partly answered
C4_Witness ==
    /\ pc[1] = "deliver"
    /\ Len(run_chunks[1]) >= 3
    /\ \E i, j \in 1..Len(ChunkCalls(1)) :
          ChunkCalls(1)[i].outcome.ok /\ ~ChunkCalls(1)[j].outcome.ok

HasKind(msgs, k) == \E i \in 1..Len(msgs) : msgs[i].kind = k

\* the bodies Twilio accepted from thread r, in order
OutboxOf(r) ==
    LET mine == SelectSeq(outbox, LAMBDA e : e.run = r)
    IN  [i \in 1..Len(mine) |-> mine[i].body]

\* C7: when extraction yields text that is empty or shorter than 50
\* characters after trimming, the run ends in the error outcome with the
\* "could not extract text" notice handed to the delivery collaborator;
\* chunk_text is not invoked, no completion call is issued and no
\* key-point delivery part is sent
C7_NoTextRejected ==
    \A r \in Runs :
        (run_text[r] # Unset /\ Len(Strip(run_text[r])) < 50) =>
            /\ pc[r] \in {"no_text", "rejected", "except", "errored"}
            /\ run_chunks[r] = <<>>
            /\ chunk_points[r] = <<>>
            /\ calls[r] = <<>>
            /\ ~\E i \in 1..Len(sent[r]) : IsDelivery(sent[r][i])
            /\ pc[r] # "no_text" => HasKind(sent[r], "no_text")
            /\ pc[r] = "rejected" => HasKind(OutboxOf(r), "no_text")

\* a text of 49 characters behind blanks was rejected
C7_Witness ==
    /\ pc[1] = "rejected"
    /\ Len(run_text[1]) >= 50
    /\ Len(Strip(run_text[1])) = 49

RECURSIVE AllSlicesFrom(_, _)
AllSlicesFrom(msgs, k) ==
    IF k > Len(msgs) THEN <<>> ELSE SendSlices(msgs[k]) \o AllSlicesFrom(msgs, k + 1)

\* every slice of every text thread r handed over was accepted
NoDeliveryFailure(r) == OutboxOf(r) = AllSlicesFrom(sent[r], 1)

AllCallsFailed(r) ==
    \A i \in 1..Len(calls[r]) : calls[r][i].returned /\ ~calls[r][i].outcome.ok

Degraded(r) ==
    /\ run_text[r] # Unset
    /\ Len(Strip(run_text[r])) >= 50
    /\ NoDeliveryFailure(r)
    /\ AllCallsFailed(r)

\* C8: when extraction yields at least 50 characters, delivery never fails
\* and every completion call fails, the run reaches Completed and never
\* Errored: every segment gets its first 10 lines as summary, the synthesis
\* result is the first 10 summaries joined in order, the delivery parts are
\* handed to the delivery collaborator and no error notice is sent
C8_DegradedRunCompletes ==
    /\ [](\A r \in Runs : Degraded(r) =>
            /\ pc[r] \notin {"no_text", "rejected", "except", "errored"}
            /\ ~HasKind(sent[r], "error")
            /\ \A i \in 1..Len(chunk_points[r]) :
                  chunk_points[r][i] = FirstTenLines(run_chunks[r][i])
            /\ pc[r] \in {"deliver", "done"} =>
                  run_final[r] = Join(Take(chunk_points[r], 10), <<NL>>)
            /\ pc[r] = "done" =>
                  /\ Len(chunk_points[r]) = Len(run_chunks[r])
                  /\ SelectSeq(sent[r], IsDelivery) = DeliveryTexts(run_final[r]))
    /\ \A r \in Runs :
          (pc[r] = "chunk") ~>
              (pc[r] = "done" \/ ~NoDeliveryFailure(r) \/ ~AllCallsFailed(r))

\* a twelve-line document went through with every completion call failing
C8_Witness ==
    /\ pc[1] = "done"
    /\ Degraded(1)
    /\ Len(SplitLines(run_text[1])) > 10
    /\ Len(calls[1]) >= 2

\* a slice of a text that is not the error notice was refused
DeliveryFailed(r) ==
    OutboxOf(r) # AllSlicesFrom(SelectSeq(sent[r], LAMBDA m : m.kind # "error"), 1)
        \o SelectSeq(OutboxOf(r), LAMBDA m : m.kind = "error")

ThreadState(r) ==
    <<pc[r], run_text[r], run_chunks[r], chunk_points[r], run_final[r], sent[r],
      calls[r], OutboxOf(r)>>

\* C9: an exception outside the two recovered completion calls moves the
\* run to Errored; exactly one error notice is handed to the delivery
\* collaborator, and after it the run does nothing more: no stage is run
\* again, no call is retried, no delivery part is sent
C9_SingleErrorReport ==
    /\ [](\A r \in Runs :
            /\ DeliveryFailed(r) => pc[r] \in {"except", "errored"}
            /\ pc[r] = "except" => ~HasKind(sent[r], "error")
            /\ pc[r] = "errored" =>
                 /\ Len(SelectSeq(sent[r], LAMBDA m : m.kind = "error")) = 1
                 /\ sent[r][Len(sent[r])].kind = "error"
                 /\ Len(SelectSeq(OutboxOf(r), LAMBDA m : m.kind = "error")) <= 1
            /\ HasKind(sent[r], "error") => pc[r] = "errored")
    /\ [][\A r \in Runs :
            /\ (pc[r] = "except" /\ ThreadState(r)' # ThreadState(r)) =>
                 /\ pc'[r] = "errored"
                 /\ sent'[r] = Append(sent[r], Message("error", <<>>))
                 /\ calls'[r] = calls[r]
            /\ pc[r] = "errored" => ThreadState(r)' = ThreadState(r)]_vars

\* a delivery part was refused after the first slice of it was accepted,
\* and the error notice went out
C9_Witness ==
    /\ pc[1] = "errored"
    /\ DeliveryFailed(1)
    /\ HasKind(OutboxOf(1), "raw")
    /\ HasKind(OutboxOf(1), "error")

(***************************************************************************)
(* Two document requests                                                   *)
(***************************************************************************)
Bodies == {<<SP>>, <<"h", "i">>, <<SP>> \o HttpsPrefix \o <<"y">>}

Numbers == {"whatsapp:+1", "whatsapp:+2"}

ConcDocs == {Rep(SP, 10) \o Rep("a", MinTextLen - 1), Rep("a", MinTextLen)}

ConcOutcomes == {Failed, Answered(<<"k">>)}

InitConc == ChunkIdle /\ SynthIdle /\ SplitIdle /\ RunIdle

Webhook ==
    /\ \E b \in Bodies : \E n \in Numbers : whatsapp_webhook(b, n)
    /\ UNCHANGED <<run_text, run_chunks, chunk_points, run_final, sent, calls, outbox>>
    /\ UNCHANGED <<chunkVars, synthVars, splitVars>>

Thread(r) ==
    /\ ThreadStep(r, ConcDocs, ConcOutcomes, {Failed})
    /\ UNCHANGED <<chunkVars, synthVars, splitVars>>

NextConc == Webhook \/ \E r \in Runs : Thread(r)

SpecConc == InitConc /\ [][NextConc]_vars

\* every started thread is scheduled
FairSpecConc == SpecConc /\ \A r \in Runs : WF_vars(Thread(r))

(***************************************************************************)
(* Claims about two concurrent runs                                        *)
(***************************************************************************)
RECURSIVE IsSubseqFrom(_, _, _, _)
IsSubseqFrom(a, i, b, j) ==
    IF i > Len(a) THEN TRUE
    ELSE IF j > Len(b) THEN FALSE
    ELSE IF a[i] = b[j] THEN IsSubseqFrom(a, i + 1, b, j + 1)
    ELSE IsSubseqFrom(a, i, b, j + 1)

IsPrefix(a, b) == Len(a) <= Len(b) /\ SubSeq(b, 1, Len(a)) = a

\* everything thread r owns
RunState(r) == <<ThreadState(r), url[r], to_whatsapp[r]>>

Terminated(r) == pc[r] \in {"done", "rejected", "errored"}

\* the segments, summaries, synthesis result and delivery parts of run r
\* are made from the data of run r alone
OwnData(r) ==
    /\ run_chunks[r] # <<>> =>
          /\ run_text[r] # Unset
          /\ run_chunks[r] = chunk_text(run_text[r], 3000, 500)
    /\ Len(chunk_points[r]) <= Len(run_chunks[r])
    /\ \A i \in 1..Len(chunk_points[r]) :
          chunk_points[r][i] = ExpectedSummary(run_chunks[r][i], ChunkCalls(r)[i])
    /\ pc[r] \in {"deliver", "done"} =>
          run_final[r] =
             IF SynthesisCalls(r)[1].outcome.ok
             THEN Strip(SynthesisCalls(r)[1].outcome.content)
             ELSE Join(Take(chunk_points[r], 10), <<NL>>)
    /\ IsPrefix(SelectSeq(sent[r], IsDelivery), DeliveryTexts(run_final[r]))

\* C10: two runs processed concurrently are isolated under every
\* interleaving: a step changes the data of one run only, every run's data
\* is made from its own document, every message a run sends goes to that
\* run's requester in that run's order, and a run that hangs in a
\* completion call does not keep the other run from finishing
C10_RunsIsolated ==
    /\ [](\A i \in 1..Len(outbox) : outbox[i].to = to_whatsapp[outbox[i].run])
    /\ [](\A r \in Runs :
            /\ IsSubseqFrom(OutboxOf(r), 1, AllSlicesFrom(sent[r], 1), 1)
            /\ OwnData(r))
    /\ [][\A r, q \in Runs :
            (r # q /\ RunState(r)' # RunState(r)) => RunState(q)' = RunState(q)]_vars
    /\ \A r, q \in Runs :
          (r # q /\ pc[q] = "hung" /\ pc[r] \notin {"idle", "hung"}) ~>
              (Terminated(r) \/ pc[r] = "hung")

\* two requesters; the messages of the two runs alternate in the outbox;
\* run 1 hangs in a completion call and run 2 has completed
C10_Witness ==
    /\ pc[1] = "hung"
    /\ pc[2] = "done"
    /\ to_whatsapp[1] # to_whatsapp[2]
    /\ \E i, j, k \in 1..Len(outbox) :
          i < j /\ j < k /\ outbox[i].run = 2 /\ outbox[j].run = 1 /\ outbox[k].run = 2

====
